---- MODULE Spec2Model ----
(***************************************************************************)
(* A model of vk-font-render: the DrawText glyph-cache / quad generator    *)
(* (src/vulkano_text/drawtext.rs) and the event loop that drives it        *)
(* (src/main.rs).                                                          *)
(*                                                                         *)
(* Abstractions.  The rusttype gpu_cache::Cache is an external library; it *)
(* is modelled by its contract: queue_glyph keeps glyphs that have a pixel *)
(* bounding box, cache_queued either makes every queued glyph resident     *)
(* (calling the uploader once per newly placed glyph) or fails with        *)
(* GlyphTooLarge / NoRoomForWholeQueue, rect_for answers Some for a        *)
(* resident glyph, None for a glyph without a bounding box and an error    *)
(* for a glyph that is not cached.  The atlas is a shelf of AtlasCapacity  *)
(* equal cells; the pixel buffer is kept per cell (which glyph bitmap its  *)
(* bytes hold).  A character is a small integer, SPACE has no outline.     *)
(* An NDC coordinate (p / dim - 0.5) * 2 is kept as the exact fraction     *)
(* <<2p - dim, dim>>.                                                      *)
(* <<2p - dim, dim>>.                                                      *)
(*                                                                         *)
(* Specifications.  Spec is main's event loop, SpecLib the DrawText        *)
(* interface driven freely (new, queue_text, draw_text), SpecNdc the pixel *)
(* to NDC conversion of draw_text and SpecUpload the uploader closure of   *)
(* draw_text, each applied once to inputs from bounded sets.               *)
(***************************************************************************)
EXTENDS Integers, Sequences, FiniteSets, TLC

VARIABLES
    status,              \* "running", "exited", or the panic that ended the process
    font_size,           \* main: let mut font_size
    recreate_swapchain,  \* main: let mut recreate_swapchain
    window_extent,       \* window.inner_size()
    swapchain_extent,    \* extent of the swapchain images main renders to
    draw_text,           \* main: let mut draw_text (the DrawText object)
    cmds,                \* commands recorded into this frame's command buffer builder
    drained,             \* the runs the latest draw_text took out of texts
    log,                 \* the calls and outcomes of the latest RedrawEventsCleared
    probe                \* arguments and result of a closure or expression run on its own

vars == <<status, font_size, recreate_swapchain, window_extent, swapchain_extent,
          draw_text, cmds, drained, log, probe>>

----------------------------------------------------------------------------
(* Program constants *)

CACHE_WIDTH == 1000
CACHE_HEIGHT == 1000
InitFontSize == 15
FontStep == 5

(* Bounds of the model *)

MaxGlyphDim == 2       \* widths and heights of the glyph bitmaps tried by SpecUpload
MaxDim == 4            \* widths and heights of the render target tried by SpecNdc
AtlasCapacity == 2      \* glyph cells the atlas holds
MaxRuns == 3            \* runs queued between two flushes (library specification)
NumImages == 2          \* swapchain images
FontSizeCap == 20       \* key A is taken while font_size < FontSizeCap
FontSizeFloor == 5      \* key M is taken while font_size > -FontSizeFloor

----------------------------------------------------------------------------
(* Values *)

SPACE == 0
CharH == 1
CharI == 2
CharX == 3

White == <<1, 1, 1, 1>>
Red == <<1, 0, 0, 1>>

NoKey == <<0, 0>>
NoProbe == [kind |-> "none"]

Extents == {<<100, 100>>, <<200, 100>>}

Ev(e, a) == [ev |-> e, arg |-> a]

----------------------------------------------------------------------------
(* The font engine: layout and bounding boxes *)

\* font.layout(text, Scale::uniform(size), point(x, y)): one positioned glyph per character
Layout(text, size, x, y) ==
    [i \in 1..Len(text) |-> [id |-> text[i], scale |-> size, pos |-> <<x + (i - 1) * size, y>>]]

\* glyph.pixel_bounding_box().is_some(): whitespace (and a degenerate scale) has no outline
HasBox(g) == g.id /= SPACE /\ g.scale > 0

\* glyph.pixel_bounding_box(): the destination rectangle in pixels
PixelBoundingBox(g) ==
    [min |-> <<g.pos[1], g.pos[2] - g.scale>>, max |-> <<g.pos[1] + g.scale, g.pos[2]>>]

\* the cache key of a glyph: glyph id and scale
GlyphKey(g) == <<g.id, g.scale>>

----------------------------------------------------------------------------
(* rusttype::gpu_cache::Cache, by contract *)

\* Cache::builder().dimensions(CACHE_WIDTH, CACHE_HEIGHT).build()
NewCache == [queue |-> <<>>, all_glyphs |-> [s \in 1..AtlasCapacity |-> NoKey]]

\* vec![0; CACHE_WIDTH * CACHE_HEIGHT]: its length, and per atlas cell the bitmap its bytes hold
NewPixelBuffer == [len |-> CACHE_WIDTH * CACHE_HEIGHT, cells |-> [s \in 1..AtlasCapacity |-> NoKey]]

\* cache.queue_glyph(0, glyph)
QueueGlyph(cache, g) ==
    IF HasBox(g) THEN [cache EXCEPT !.queue = Append(@, g)] ELSE cache

RECURSIVE QueueGlyphs(_, _)
QueueGlyphs(cache, glyphs) ==
    IF glyphs = <<>> THEN cache
    ELSE QueueGlyphs(QueueGlyph(cache, Head(glyphs)), Tail(glyphs))

ResidentKeys(cache) == {cache.all_glyphs[s] : s \in 1..AtlasCapacity} \ {NoKey}

SlotOf(cache, k) == CHOOSE s \in 1..AtlasCapacity : cache.all_glyphs[s] = k

QueuedKeys(cache) == {GlyphKey(cache.queue[i]) : i \in 1..Len(cache.queue)}

\* a glyph whose bitmap does not fit the atlas (width >= cache width or height >= cache height)
TooLarge(k) == k[2] >= CACHE_WIDTH \/ k[2] >= CACHE_HEIGHT

KeyRank(k) == k[2] * 4 + k[1]

MinKey(ks) == CHOOSE k \in ks : \A o \in ks : KeyRank(k) <= KeyRank(o)

\* place the uncached keys into free cells, lowest cell first; returns the cells
RECURSIVE Place(_, _)
Place(cells, ks) ==
    IF ks = {} THEN cells
    ELSE LET k == MinKey(ks)
             s == CHOOSE f \in 1..AtlasCapacity :
                      /\ cells[f] = NoKey
                      /\ \A o \in 1..AtlasCapacity : cells[o] = NoKey => f <= o
         IN Place([cells EXCEPT ![s] = k], ks \ {k})

\* cache.cache_queued(uploader): the result, the cache afterwards and the pixel buffer
\* after the uploader ran for every newly placed glyph
CacheQueued(cache, pixels) ==
    LET queued == QueuedKeys(cache)
        resident == ResidentKeys(cache)
        uncached == queued \ resident
        free == {s \in 1..AtlasCapacity : cache.all_glyphs[s] = NoKey}
        kept == IF Cardinality(uncached) <= Cardinality(free)
                THEN cache.all_glyphs
                ELSE [s \in 1..AtlasCapacity |->
                        IF cache.all_glyphs[s] \in queued THEN cache.all_glyphs[s] ELSE NoKey]
        placed == Place(kept, uncached)
    IN  IF \E k \in queued : TooLarge(k)
        THEN [result |-> "GlyphTooLarge", cache |-> cache, pixels |-> pixels]
        ELSE IF Cardinality(queued) > AtlasCapacity
        THEN [result |-> "NoRoomForWholeQueue", cache |-> cache, pixels |-> pixels]
        ELSE [result |-> "Ok",
              cache |-> [queue |-> <<>>, all_glyphs |-> placed],
              pixels |-> [pixels EXCEPT !.cells = [s \in 1..AtlasCapacity |->
                            IF placed[s] \in uncached THEN placed[s] ELSE pixels.cells[s]]]]

\* cache.rect_for(0, g)
RectFor(cache, g) ==
    IF ~HasBox(g) THEN [tag |-> "None"]
    ELSE IF GlyphKey(g) \in ResidentKeys(cache)
    THEN LET s == SlotOf(cache, GlyphKey(g))
         IN [tag |-> "Some",
             uv_rect |-> [min |-> <<s - 1, 0>>, max |-> <<s, 1>>],
             screen_rect |-> PixelBoundingBox(g)]
    ELSE [tag |-> "GlyphNotCached"]

----------------------------------------------------------------------------
(* DrawText *)

\* DrawText::new(device, queue, swapchain, images)
New(extent) ==
    [cache |-> NewCache,
     cache_pixel_buffer |-> NewPixelBuffer,
     framebuffers |-> [i \in 1..NumImages |-> extent],
     texts |-> <<>>]

\* DrawText::queue_text(x, y, size, color, text)
QueueText(dt, x, y, size, color, text) ==
    LET glyphs == Layout(text, size, x, y)
    IN [dt EXCEPT !.cache = QueueGlyphs(@, glyphs),
                  !.texts = Append(@, [glyphs |-> glyphs, color |-> color])]

\* (pixel / screen_dimension - 0.5) * 2.0, as the fraction <<numerator, denominator>>
Ndc(pixel, screen_dimension) == <<2 * pixel - screen_dimension, screen_dimension>>

Vertex(position, tex_position, color) ==
    [position |-> position, tex_position |-> tex_position, color |-> color]

\* a conversion that divides x by the height and y by the width
GlRectSwapsDimensions(screen_rect, screen_width, screen_height) ==
    [min |-> <<Ndc(screen_rect.min[1], screen_height), Ndc(screen_rect.min[2], screen_width)>>,
     max |-> <<Ndc(screen_rect.max[1], screen_height), Ndc(screen_rect.max[2], screen_width)>>]

\* let gl_rect = Rect { min: point(..), max: point(..) }: the destination rectangle in NDC
GlRect(screen_rect, screen_width, screen_height) ==
    [min |-> <<Ndc(screen_rect.min[1], screen_width), Ndc(screen_rect.min[2], screen_height)>>,
     max |-> <<Ndc(screen_rect.max[1], screen_width), Ndc(screen_rect.max[2], screen_height)>>]

\* a quad generator that loses the last vertex of the second triangle
GlyphVerticesPartial(cache, g, color, screen_width, screen_height) ==
    LET r == RectFor(cache, g)
    IN  IF r.tag = "Some"
        THEN [i \in 1..5 |-> Vertex(<<Ndc(r.screen_rect.min[1], screen_width),
                                      Ndc(r.screen_rect.min[2], screen_height)>>,
                                    r.uv_rect.min, color)]
        ELSE <<>>

\* a quad generator whose second triangle repeats the first
GlyphVerticesSameTriangle(cache, g, color, screen_width, screen_height) ==
    LET r == RectFor(cache, g)
    IN  IF r.tag = "Some"
        THEN LET uv_rect == r.uv_rect
                 gl_rect == GlRect(r.screen_rect, screen_width, screen_height)
                 bl == Vertex(<<gl_rect.min[1], gl_rect.max[2]>>, <<uv_rect.min[1], uv_rect.max[2]>>, color)
                 tl == Vertex(<<gl_rect.min[1], gl_rect.min[2]>>, <<uv_rect.min[1], uv_rect.min[2]>>, color)
                 tr == Vertex(<<gl_rect.max[1], gl_rect.min[2]>>, <<uv_rect.max[1], uv_rect.min[2]>>, color)
             IN << bl, tl, tr, tr, tl, bl >>
        ELSE <<>>

\* the closure of flat_map: the vertices of one glyph
GlyphVertices(cache, g, color, screen_width, screen_height) ==
    LET r == RectFor(cache, g)
    IN  IF r.tag = "Some"
        THEN LET uv_rect == r.uv_rect
                 gl_rect == GlRect(r.screen_rect, screen_width, screen_height)
             IN << Vertex(<<gl_rect.min[1], gl_rect.max[2]>>, <<uv_rect.min[1], uv_rect.max[2]>>, color),
                   Vertex(<<gl_rect.min[1], gl_rect.min[2]>>, <<uv_rect.min[1], uv_rect.min[2]>>, color),
                   Vertex(<<gl_rect.max[1], gl_rect.min[2]>>, <<uv_rect.max[1], uv_rect.min[2]>>, color),
                   Vertex(<<gl_rect.max[1], gl_rect.min[2]>>, <<uv_rect.max[1], uv_rect.min[2]>>, color),
                   Vertex(<<gl_rect.max[1], gl_rect.max[2]>>, <<uv_rect.max[1], uv_rect.max[2]>>, color),
                   Vertex(<<gl_rect.min[1], gl_rect.max[2]>>, <<uv_rect.min[1], uv_rect.max[2]>>, color) >>
        ELSE <<>>

\* text.glyphs.iter().flat_map(..).collect(): the vertex list of one run
RECURSIVE RunVertices(_, _, _, _, _)
RunVertices(cache, glyphs, color, screen_width, screen_height) ==
    IF glyphs = <<>> THEN <<>>
    ELSE GlyphVertices(cache, Head(glyphs), color, screen_width, screen_height)
         \o RunVertices(cache, Tail(glyphs), color, screen_width, screen_height)

\* what the draw loop records for one run with vertices
RunCommands(vertices) ==
    << [op |-> "bind_pipeline_graphics"],
       [op |-> "bind_descriptor_sets"],
       [op |-> "bind_vertex_buffers", vertices |-> vertices],
       [op |-> "draw", vertex_count |-> Len(vertices), vertices |-> vertices] >>

\* a draw loop without the vertices.is_empty() test
RECURSIVE DrawLoopNoEmptyTest(_, _, _, _)
DrawLoopNoEmptyTest(cache, runs, screen_width, screen_height) ==
    IF runs = <<>> THEN <<>>
    ELSE RunCommands(RunVertices(cache, Head(runs).glyphs, Head(runs).color,
                                 screen_width, screen_height))
         \o DrawLoopNoEmptyTest(cache, Tail(runs), screen_width, screen_height)

\* for text in &mut self.texts.drain(..) { .. if vertices.is_empty() { break; } .. }
RECURSIVE DrawLoop(_, _, _, _)
DrawLoop(cache, runs, screen_width, screen_height) ==
    IF runs = <<>> THEN <<>>
    ELSE LET vertices == RunVertices(cache, Head(runs).glyphs, Head(runs).color,
                                     screen_width, screen_height)
         IN  IF vertices = <<>> THEN <<>>
             ELSE RunCommands(vertices) \o DrawLoop(cache, Tail(runs), screen_width, screen_height)

\* a loop that takes the runs out one by one leaves the runs behind the break in texts
RECURSIVE TextsLeftByBreak(_, _, _, _)
TextsLeftByBreak(cache, runs, screen_width, screen_height) ==
    IF runs = <<>> THEN <<>>
    ELSE IF RunVertices(cache, Head(runs).glyphs, Head(runs).color,
                        screen_width, screen_height) = <<>>
    THEN Tail(runs)
    ELSE TextsLeftByBreak(cache, Tail(runs), screen_width, screen_height)

\* self.texts after the loop: the Drain is dropped when the loop ends, which removes the
\* runs the loop did not reach as well
TextsAfterDrain(cache, runs, screen_width, screen_height) == <<>>

\* an upload that is recorded after the text pass has begun
UploadCommandsInsidePass(pixels, image_num) ==
    << [op |-> "begin_render_pass", framebuffer |-> <<"text", image_num>>],
       [op |-> "copy_buffer_to_image", len |-> pixels.len, buffer |-> pixels.cells] >>

\* what draw_text records before the draw loop: the atlas upload and the render pass begin
UploadCommands(pixels, image_num) ==
    << [op |-> "copy_buffer_to_image", len |-> pixels.len, buffer |-> pixels.cells],
       [op |-> "begin_render_pass", framebuffer |-> <<"text", image_num>>] >>

\* let screen_width = self.framebuffers[image_num].extent()[0]; let screen_height = ..[1]
ScreenDims(dt, image_num) == dt.framebuffers[image_num]

\* a draw_text that builds the transfer buffer before cache_queued has run
DrawTextCallUploadsStale(dt, command_buffer, image_num) ==
    LET screen_width == ScreenDims(dt, image_num)[1]
        screen_height == ScreenDims(dt, image_num)[2]
        cached == CacheQueued(dt.cache, dt.cache_pixel_buffer)
    IN  IF cached.result /= "Ok"
        THEN [returned |-> FALSE, dt |-> dt, cmds |-> command_buffer, drained |-> <<>>]
        ELSE [returned |-> TRUE,
              dt |-> [dt EXCEPT !.cache = cached.cache,
                                !.cache_pixel_buffer = cached.pixels,
                                !.texts = <<>>],
              cmds |-> command_buffer
                       \o UploadCommands(dt.cache_pixel_buffer, image_num)
                       \o DrawLoop(cached.cache, dt.texts, screen_width, screen_height)
                       \o << [op |-> "end_render_pass"] >>,
              drained |-> dt.texts]

\* a draw_text that reads the glyph rectangles before cache_queued has placed the queue
DrawTextCallLooksUpFirst(dt, command_buffer, image_num) ==
    LET screen_width == ScreenDims(dt, image_num)[1]
        screen_height == ScreenDims(dt, image_num)[2]
        cached == CacheQueued(dt.cache, dt.cache_pixel_buffer)
    IN  IF cached.result /= "Ok"
        THEN [returned |-> FALSE, dt |-> dt, cmds |-> command_buffer, drained |-> <<>>]
        ELSE [returned |-> TRUE,
              dt |-> [dt EXCEPT !.cache = cached.cache,
                                !.cache_pixel_buffer = cached.pixels,
                                !.texts = <<>>],
              cmds |-> command_buffer
                       \o UploadCommands(cached.pixels, image_num)
                       \o DrawLoop(dt.cache, dt.texts, screen_width, screen_height)
                       \o << [op |-> "end_render_pass"] >>,
              drained |-> dt.texts]

\* DrawText::draw_text(command_buffer, memory_allocator, image_num): whether it returned
\* (cache_queued(..).unwrap() panics on an error), the object and the builder afterwards
DrawTextCall(dt, command_buffer, image_num) ==
    LET screen_width == ScreenDims(dt, image_num)[1]
        screen_height == ScreenDims(dt, image_num)[2]
        cached == CacheQueued(dt.cache, dt.cache_pixel_buffer)
    IN  IF cached.result /= "Ok"
        THEN [returned |-> FALSE, dt |-> dt, cmds |-> command_buffer, drained |-> <<>>]
        ELSE [returned |-> TRUE,
              dt |-> [dt EXCEPT !.cache = cached.cache,
                                !.cache_pixel_buffer = cached.pixels,
                                !.texts = TextsAfterDrain(cached.cache, dt.texts,
                                                          screen_width, screen_height)],
              cmds |-> command_buffer
                       \o UploadCommands(cached.pixels, image_num)
                       \o DrawLoop(cached.cache, dt.texts, screen_width, screen_height)
                       \o << [op |-> "end_render_pass"] >>,
              drained |-> dt.texts]

----------------------------------------------------------------------------
(* main: the event loop *)

\* let lines = vec!(..): text lines, some of them empty
Lines == << <<CharH, SPACE, CharI>>, <<>>, <<CharI>> >>

\* for (i, line) in lines.iter().enumerate() { draw_text.queue_text(..) }
RECURSIVE QueueLines(_, _, _, _)
QueueLines(dt, lines, i, size) ==
    IF i > Len(lines) THEN dt
    ELSE QueueLines(QueueText(dt, 0, 0 + i * size, size, White, lines[i]), lines, i + 1, size)

Init ==
    /\ status = "running"
    /\ font_size = InitFontSize
    /\ recreate_swapchain = FALSE
    /\ window_extent \in Extents
    /\ swapchain_extent = window_extent
    /\ draw_text = New(window_extent)
    /\ cmds = <<>>
    /\ drained = <<>>
    /\ log = <<>>
    /\ probe = NoProbe

\* Event::WindowEvent { event: WindowEvent::CloseRequested }
CloseRequested ==
    /\ status = "running"
    /\ status' = "exited"
    /\ UNCHANGED <<font_size, recreate_swapchain, window_extent, swapchain_extent,
                   draw_text, cmds, drained, log, probe>>

\* Event::WindowEvent { event: WindowEvent::Resized(_) }
Resized ==
    /\ status = "running"
    /\ \E e \in Extents : window_extent' = e
    /\ recreate_swapchain' = TRUE
    /\ UNCHANGED <<status, font_size, swapchain_extent, draw_text, cmds, drained, log, probe>>

\* DeviceEvent::Key with VirtualKeyCode::A
KeyA ==
    /\ status = "running"
    /\ font_size < FontSizeCap
    /\ font_size' = font_size + FontStep
    /\ recreate_swapchain' = TRUE
    /\ UNCHANGED <<status, window_extent, swapchain_extent, draw_text, cmds, drained, log, probe>>

\* DeviceEvent::Key with VirtualKeyCode::M
KeyM ==
    /\ status = "running"
    /\ font_size > -FontSizeFloor
    /\ font_size' = font_size - FontStep
    /\ recreate_swapchain' = TRUE
    /\ UNCHANGED <<status, window_extent, swapchain_extent, draw_text, cmds, drained, log, probe>>

RecreateOutcomes == {"Ok", "ImageExtentNotSupported", "Error"}
AcquireOutcomes == {"Ok", "Suboptimal", "OutOfDate", "Error"}
FlushOutcomes == {"Ok", "OutOfDate", "Error"}

\* an acquisition that forgets the suboptimal report
AfterAcquireOutOfDateOnly(flag, acq) == flag \/ acq = "OutOfDate"

\* the recreate_swapchain flag after acquisition answered acq
AfterAcquire(flag, acq) == flag \/ acq \in {"OutOfDate", "Suboptimal"}

\* the recreate_swapchain flag after then_signal_fence_and_flush answered fl
AfterFlush(flag, fl) == flag \/ fl = "OutOfDate"

\* builder.begin_render_pass(..framebuffers[image_num]..).end_render_pass(): what main
\* records before it calls draw_text
MainRenderPass(image_num) ==
    << [op |-> "begin_render_pass", framebuffer |-> <<"main", image_num>>],
       [op |-> "end_render_pass"] >>

\* the part of RedrawEventsCleared behind a successful acquire_next_image: draw_text is
\* recorded behind main's own render pass, the command buffer is built and submitted
Render(dt, flag, entries, image_num) ==
    LET builder == MainRenderPass(image_num)
        called == entries \o << Ev("draw_text", image_num) >>
    IN  \E drawn \in {DrawTextCall(dt, builder, image_num)} :
            IF ~drawn.returned
            THEN /\ status' = "panic_cache_write"
                 /\ recreate_swapchain' = flag
                 /\ draw_text' = dt
                 /\ log' = called
                 /\ cmds' = builder
                 /\ drained' = <<>>
            ELSE \E fl \in FlushOutcomes :
                 /\ recreate_swapchain' = AfterFlush(flag, fl)
                 /\ draw_text' = drawn.dt
                 /\ log' = called \o << Ev("flush_" \o fl, 0) >>
                 /\ cmds' = drawn.cmds
                 /\ drained' = drawn.drained
                 /\ UNCHANGED status

\* the part of RedrawEventsCleared behind the recreation: the lines are queued, an image
\* is acquired and the frame is rendered
QueueAndRender(dt, flag, entries) ==
    \E queued \in {QueueLines(dt, Lines, 1, font_size)} :
    \E acq \in AcquireOutcomes :
        LET acquired == entries \o [i \in 1..Len(Lines) |-> Ev("queue_text", font_size)]
                                \o << Ev("acquire_" \o acq, 0) >>
        IN  IF acq = "OutOfDate"
            THEN /\ recreate_swapchain' = AfterAcquire(flag, acq)
                 /\ draw_text' = queued
                 /\ log' = acquired
                 /\ cmds' = <<>>
                 /\ drained' = <<>>
                 /\ UNCHANGED status
            ELSE IF acq = "Error"
            THEN /\ status' = "panic_acquire"
                 /\ recreate_swapchain' = flag
                 /\ draw_text' = queued
                 /\ log' = acquired
                 /\ cmds' = <<>>
                 /\ drained' = <<>>
            ELSE \E image_num \in 1..NumImages :
                     Render(queued, AfterAcquire(flag, acq), acquired, image_num)

\* Event::RedrawEventsCleared, with the answers of swapchain.recreate, acquire_next_image
\* and then_signal_fence_and_flush
RedrawEventsCleared ==
    /\ status = "running"
    /\ UNCHANGED probe
    /\ IF recreate_swapchain
       THEN \E rec \in RecreateOutcomes :
              IF rec = "ImageExtentNotSupported"
              THEN /\ log' = << Ev("recreate_refused", 0) >>
                   /\ cmds' = <<>>
                   /\ drained' = <<>>
                   /\ UNCHANGED <<status, font_size, recreate_swapchain, window_extent,
                                  swapchain_extent, draw_text>>
              ELSE IF rec = "Error"
              THEN /\ status' = "panic_recreate"
                   /\ UNCHANGED <<font_size, recreate_swapchain, window_extent,
                                  swapchain_extent, draw_text, cmds, drained, log>>
              ELSE /\ swapchain_extent' = window_extent
                   /\ UNCHANGED <<font_size, window_extent>>
                   /\ QueueAndRender(New(window_extent), FALSE, << Ev("recreated", 0) >>)
       ELSE /\ UNCHANGED <<font_size, window_extent, swapchain_extent>>
            /\ QueueAndRender(draw_text, FALSE, << >>)

Next ==
    \/ CloseRequested
    \/ Resized
    \/ KeyA
    \/ KeyM
    \/ RedrawEventsCleared

Spec == Init /\ [][Next]_vars

----------------------------------------------------------------------------
(* DrawText driven by any caller: construction, queue_text and draw_text in any order *)

Request(text, size, color) == [text |-> text, size |-> size, color |-> color]

\* the queue_text calls the caller may make
Requests ==
    { Request(<<>>, InitFontSize, White),
      Request(<<SPACE>>, InitFontSize, White),
      Request(<<CharH>>, InitFontSize, White),
      Request(<<CharH>>, InitFontSize, Red),
      Request(<<CharH, CharI>>, InitFontSize, White),
      Request(<<CharX, SPACE>>, InitFontSize, Red),
      Request(<<CharH>>, CACHE_WIDTH, White) }

\* DrawText::new on fresh swapchain images
LibNew ==
    /\ status = "running"
    /\ \E e \in Extents :
         /\ draw_text' = New(e)
         /\ window_extent' = e
         /\ swapchain_extent' = e
    /\ cmds' = <<>>
    /\ drained' = <<>>
    /\ UNCHANGED <<status, font_size, recreate_swapchain, log, probe>>

\* draw_text.queue_text(0, size, size, color, text); the first call after a flush starts
\* the next frame, whose command buffer builder is empty
LibQueueText ==
    /\ status = "running"
    /\ Len(draw_text.texts) < MaxRuns
    /\ \E r \in Requests :
         draw_text' = QueueText(draw_text, 0, r.size, r.size, r.color, r.text)
    /\ cmds' = <<>>
    /\ drained' = <<>>
    /\ UNCHANGED <<status, font_size, recreate_swapchain, window_extent, swapchain_extent, log,
                   probe>>

\* builder.draw_text(&mut draw_text, &memory_allocator, image_num), on an empty builder
\* or behind a render pass of the caller that has ended, as in main
LibDrawText ==
    /\ status = "running"
    /\ \E image_num \in 1..NumImages :
       \E builder \in {<<>>, MainRenderPass(image_num)} :
         \E drawn \in {DrawTextCall(draw_text, builder, image_num)} :
             /\ status' = IF drawn.returned THEN status ELSE "panic_cache_write"
             /\ draw_text' = drawn.dt
             /\ cmds' = drawn.cmds
             /\ drained' = drawn.drained
    /\ UNCHANGED <<font_size, recreate_swapchain, window_extent, swapchain_extent, log, probe>>

LibNext ==
    \/ LibNew
    \/ LibQueueText
    \/ LibDrawText

SpecLib == Init /\ [][LibNext]_vars

----------------------------------------------------------------------------
(* The uploader closure that draw_text hands to cache_queued, on its own.  The pixel    *)
(* buffer has CACHE_WIDTH * CACHE_HEIGHT bytes; what a call writes is kept as the set   *)
(* of pairs <<index written in cache_pixel_buffer, index read in src_data>>.            *)

\* a row loop that advances dst_index by the width of the glyph
RECURSIVE UploadRowsPacked(_, _, _, _, _, _)
UploadRowsPacked(rows, width, dst_index, src_index, src_len, buffer_len) ==
    IF rows = 0 THEN [panicked |-> FALSE, writes |-> {}]
    ELSE IF dst_index + width > buffer_len \/ src_index + width > src_len
    THEN [panicked |-> TRUE, writes |-> {}]
    ELSE LET rest == UploadRowsPacked(rows - 1, width, dst_index + width,
                                      src_index + width, src_len, buffer_len)
         IN  [panicked |-> rest.panicked,
              writes |-> {<<dst_index + c, src_index + c>> : c \in 0..(width - 1)}
                             \cup rest.writes]

\* for _ in 0..height { dst_slice.copy_from_slice(src_slice); dst_index += CACHE_WIDTH;
\* src_index += width; }: slicing past the end of either buffer panics
RECURSIVE UploadRows(_, _, _, _, _, _)
UploadRows(rows, width, dst_index, src_index, src_len, buffer_len) ==
    IF rows = 0 THEN [panicked |-> FALSE, writes |-> {}]
    ELSE IF dst_index + width > buffer_len \/ src_index + width > src_len
    THEN [panicked |-> TRUE, writes |-> {}]
    ELSE LET rest == UploadRows(rows - 1, width, dst_index + CACHE_WIDTH,
                                src_index + width, src_len, buffer_len)
         IN  [panicked |-> rest.panicked,
              writes |-> {<<dst_index + c, src_index + c>> : c \in 0..(width - 1)}
                             \cup rest.writes]

\* |rect, src_data| { .. }: the closure given to cache_queued
Uploader(rect, src_len, buffer_len) ==
    LET width == rect.max[1] - rect.min[1]
        height == rect.max[2] - rect.min[2]
        dst_index == rect.min[2] * CACHE_WIDTH + rect.min[1]
    IN  UploadRows(height, width, dst_index, 0, src_len, buffer_len)

\* rectangles inside the atlas, of every size up to MaxGlyphDim, at its first and last
\* rows and columns
UploadRects ==
    UNION {{[min |-> <<x, y>>, max |-> <<x + sz[1], y + sz[2]>>] :
                x \in {0, CACHE_WIDTH - sz[1]}, y \in {0, CACHE_HEIGHT - sz[2]}} :
           sz \in (1..MaxGlyphDim) \X (1..MaxGlyphDim)}

\* a DrawText that has flushed one run, so that its pixel buffer holds glyph bitmaps
InitUpload ==
    /\ status = "running"
    /\ font_size = InitFontSize
    /\ recreate_swapchain = FALSE
    /\ window_extent \in Extents
    /\ swapchain_extent = window_extent
    /\ draw_text = DrawTextCall(QueueText(New(window_extent), 0, InitFontSize, InitFontSize,
                                          White, Lines[1]), <<>>, 1).dt
    /\ cmds = <<>>
    /\ drained = <<>>
    /\ log = <<>>
    /\ probe = NoProbe

\* one call of the closure by cache_queued, with a rect and the bitmap of that size
UploadGlyph ==
    /\ probe = NoProbe
    /\ \E rect \in UploadRects :
         LET src_len == (rect.max[1] - rect.min[1]) * (rect.max[2] - rect.min[2])
             done == Uploader(rect, src_len, draw_text.cache_pixel_buffer.len)
         IN  probe' = [kind |-> "upload", rect |-> rect, src_len |-> src_len,
                       panicked |-> done.panicked, writes |-> done.writes]
    /\ UNCHANGED <<status, font_size, recreate_swapchain, window_extent, swapchain_extent,
                   draw_text, cmds, drained, log>>

UploadNext ==
    \/ UploadGlyph
    \/ LibQueueText

SpecUpload == InitUpload /\ [][UploadNext]_vars

----------------------------------------------------------------------------
(* The pixel to NDC conversion of draw_text on its own: a DrawText built on swapchain   *)
(* images of any size up to MaxDim, and the conversion of one screen rectangle.         *)

\* the rectangles with corners on the pixel grid of a target of the given size
ScreenRects(extent) ==
    {[min |-> <<x0, y0>>, max |-> <<x1, y1>>] :
        x0 \in 0..extent[1], x1 \in 0..extent[1], y0 \in 0..extent[2], y1 \in 0..extent[2]}

InitNdc ==
    /\ status = "running"
    /\ font_size = InitFontSize
    /\ recreate_swapchain = FALSE
    /\ window_extent \in (1..MaxDim) \X (1..MaxDim)
    /\ swapchain_extent = window_extent
    /\ draw_text = New(window_extent)
    /\ cmds = <<>>
    /\ drained = <<>>
    /\ log = <<>>
    /\ probe = NoProbe

\* screen_width, screen_height and gl_rect as draw_text computes them for image_num and
\* one screen_rect
NdcConvert ==
    /\ probe = NoProbe
    /\ \E image_num \in 1..NumImages : \E screen_rect \in ScreenRects(swapchain_extent) :
         LET dims == ScreenDims(draw_text, image_num)
         IN  probe' = [kind |-> "ndc", image_num |-> image_num, screen_rect |-> screen_rect,
                       dims |-> dims, gl_rect |-> GlRect(screen_rect, dims[1], dims[2])]
    /\ UNCHANGED <<status, font_size, recreate_swapchain, window_extent, swapchain_extent,
                   draw_text, cmds, drained, log>>

SpecNdc == InitNdc /\ [][NdcConvert]_vars

----------------------------------------------------------------------------
(* Reading the recorded frame *)

\* the latest draw_text call returned and its commands are in cmds
FlushReturned ==
    /\ status /= "panic_cache_write"
    /\ \E i \in 1..Len(cmds) : cmds[i].op = "copy_buffer_to_image"

IsDraw(c) == c.op = "draw"

DrawsOf(c) == SelectSeq(c, IsDraw)

\* the glyphs of a run that rect_for resolves in the cache as it is after the flush
Resolved(run) ==
    {i \in 1..Len(run.glyphs) :
        HasBox(run.glyphs[i]) /\ GlyphKey(run.glyphs[i]) \in ResidentKeys(draw_text.cache)}

HasResolved(run) == Resolved(run) /= {}

----------------------------------------------------------------------------
(* C1: in one flush every queued run that resolves at least one glyph gets exactly one  *)
(* draw call of its own, the draw calls follow the order the runs were queued in, and   *)
(* this also when a run without visible glyphs was queued before runs that have glyphs. *)
C1_EveryVisibleRunDrawnInOrder ==
    FlushReturned =>
        LET visible == SelectSeq(drained, HasResolved)
            draws == DrawsOf(cmds)
        IN  /\ Len(draws) = Len(visible)
            /\ \A i \in 1..Len(draws) :
                 /\ draws[i].vertex_count = 6 * Cardinality(Resolved(visible[i]))
                 /\ draws[i].vertices[1].color = visible[i].color

----------------------------------------------------------------------------
(* C2: after draw_text returns the list of queued runs (texts) is empty, whatever was   *)
(* queued and also when the draw loop stopped early.                                    *)
C2_TextsEmptyAfterFlush ==
    FlushReturned => draw_text.texts = <<>>

\* a flush whose draw loop stopped before a run that has glyphs
C2_Witness_LoopStoppedEarly ==
    /\ FlushReturned
    /\ Len(DrawsOf(cmds)) < Len(SelectSeq(drained, HasResolved))
    /\ draw_text.texts = <<>>

----------------------------------------------------------------------------
(* Reading the log of the latest RedrawEventsCleared *)

HasEv(l, e) == \E i \in 1..Len(l) : l[i].ev = e

----------------------------------------------------------------------------
(* C3: handling a resize (recreate_swapchain) leaves the glyph atlas as it was: the     *)
(* resident glyphs and the pixel buffer after the recreation are those before it.       *)
(* Stated for the frames that recreate and then stop before draw_text, so that nothing  *)
(* but the recreation has touched the atlas.                                            *)
C3_AtlasSurvivesRecreate ==
    [][ (status' = "running" /\ HasEv(log', "recreated") /\ ~HasEv(log', "draw_text"))
            => /\ draw_text'.cache.all_glyphs = draw_text.cache.all_glyphs
               /\ draw_text'.cache_pixel_buffer = draw_text.cache_pixel_buffer ]_vars

----------------------------------------------------------------------------
(* C4: a glyph that cannot be cached (bitmap larger than the atlas, or no room for the  *)
(* queued glyphs) never aborts the frame: draw_text completes and returns.              *)
C4_GlyphFailureNeverAbortsFrame ==
    status /= "panic_cache_write"

----------------------------------------------------------------------------
(* C5: a flush with no run queued records no draw call and does not touch the atlas     *)
(* upload path: no buffer-to-image copy is recorded.                                    *)
C5_EmptyFlushSkipsUpload ==
    \A i \in 1..Len(cmds) :
        (cmds[i].op = "begin_render_pass" /\ cmds[i].framebuffer[1] = "text" /\ drained = <<>>)
            => \A j \in 1..Len(cmds) : cmds[j].op \notin {"draw", "copy_buffer_to_image"}

----------------------------------------------------------------------------
(* C9: every call of queue_text is made with a strictly positive font size.             *)
C9_QueueTextSizePositive ==
    \A i \in 1..Len(log) : log[i].ev = "queue_text" => log[i].arg > 0

----------------------------------------------------------------------------
----------------------------------------------------------------------------
(* C7: no draw call with a vertex count of zero is ever recorded; a run that yields no  *)
(* vertices gets no vertex buffer and no draw call.                                     *)
C7_NoEmptyDraw ==
    /\ \A i \in 1..Len(cmds) :
         /\ cmds[i].op = "draw" => cmds[i].vertex_count > 0
         /\ cmds[i].op = "bind_vertex_buffers" => cmds[i].vertices /= <<>>
    /\ FlushReturned => Len(DrawsOf(cmds)) <= Len(SelectSeq(drained, HasResolved))

\* a flush that drained a run without any resolved glyph after a run that was drawn
C7_Witness_RunWithoutVertices ==
    /\ FlushReturned
    /\ Len(DrawsOf(cmds)) >= 1
    /\ \E n \in 1..Len(drained) : ~HasResolved(drained[n])

----------------------------------------------------------------------------
(* C8: every flush uploads the whole atlas pixel buffer exactly once, after the glyphs  *)
(* queued for the frame were written into it, and the copy precedes every draw.         *)
C8_OneUploadBeforeDraws ==
    FlushReturned =>
        /\ Cardinality({i \in 1..Len(cmds) : cmds[i].op = "copy_buffer_to_image"}) = 1
        /\ \A i \in 1..Len(cmds) : cmds[i].op = "copy_buffer_to_image" =>
             /\ cmds[i].len = CACHE_WIDTH * CACHE_HEIGHT
             /\ cmds[i].buffer = draw_text.cache_pixel_buffer.cells
             /\ \A n \in 1..Len(drained) : \A g \in 1..Len(drained[n].glyphs) :
                  HasBox(drained[n].glyphs[g]) =>
                      \E c \in 1..AtlasCapacity : cmds[i].buffer[c] = GlyphKey(drained[n].glyphs[g])
             /\ \A j \in 1..Len(cmds) : cmds[j].op = "draw" => i < j

\* a flush that rasterized glyphs and drew two runs
C8_Witness_UploadThenDraws ==
    /\ FlushReturned
    /\ Len(DrawsOf(cmds)) >= 2
    /\ \E i \in 1..Len(cmds) :
         /\ cmds[i].op = "copy_buffer_to_image"
         /\ \E c \in 1..AtlasCapacity : cmds[i].buffer[c] /= NoKey

----------------------------------------------------------------------------
(* C10 *)

Reports == {"acquire_OutOfDate", "acquire_Suboptimal", "flush_OutOfDate"}

(* C10 as stated: once acquisition or flush reports out of date, or acquisition reports *)
(* suboptimal, no further draw_text flush is recorded until the swapchain has been      *)
(* recreated.                                                                           *)
C10_NoFlushAfterReport ==
    \A i \in 1..Len(log) : \A j \in (i + 1)..Len(log) :
        (log[i].ev \in Reports /\ log[j].ev = "draw_text")
            => \E k \in (i + 1)..(j - 1) : log[k].ev = "recreated"

(* C10 amended: a report of out of date (acquisition or flush) or of suboptimal leaves  *)
(* recreation pending; a frame that starts with recreation pending records a draw_text  *)
(* flush only after it has recreated the swapchain and DrawText; a refused recreation   *)
(* skips the frame and stays pending; after a successful recreation the frame queues,   *)
(* and flushes when an image is acquired.  The frame whose acquisition reported         *)
(* suboptimal still records its own flush.                                              *)
C10_RecreateBeforeNextFlush ==
    [][ /\ (\E i \in 1..Len(log') : log'[i].ev \in Reports) => recreate_swapchain'
        /\ (RedrawEventsCleared /\ recreate_swapchain) =>
             \/ status' = "panic_recreate"
             \/ /\ log' = << Ev("recreate_refused", 0) >>
                /\ recreate_swapchain'
                /\ cmds' = <<>>
                /\ draw_text' = draw_text
             \/ /\ log'[1].ev = "recreated"
                /\ draw_text'.framebuffers = [i \in 1..NumImages |-> window_extent]
                /\ HasEv(log', "queue_text")
                /\ (HasEv(log', "acquire_Ok") \/ HasEv(log', "acquire_Suboptimal"))
                       => HasEv(log', "draw_text")
                /\ HasEv(log', "acquire_OutOfDate") => ~HasEv(log', "draw_text") ]_vars

\* a frame that recreated, flushed, and was reported out of date again
C10_Witness_RecreatedThenOutOfDate ==
    /\ status = "running"
    /\ Len(log) > 0
    /\ log[1].ev = "recreated"
    /\ HasEv(log, "draw_text")
    /\ HasEv(log, "flush_OutOfDate")
    /\ recreate_swapchain

----------------------------------------------------------------------------
(* C12 *)

\* how many commands of one kind the builder holds
CountOp(l, op) == Cardinality({i \in 1..Len(l) : l[i].op = op})

(* C12: in one flush that draws, the graphics pipeline and the atlas descriptor set are  *)
(* bound exactly once, however many runs are drawn; each drawn run adds only one        *)
(* bind-vertex-buffer and one draw.                                                     *)
C12_PipelineBoundOncePerFlush ==
    (FlushReturned /\ Len(DrawsOf(cmds)) >= 1) =>
        /\ CountOp(cmds, "bind_pipeline_graphics") = 1
        /\ CountOp(cmds, "bind_descriptor_sets") = 1
        /\ CountOp(cmds, "bind_vertex_buffers") = Len(DrawsOf(cmds))

----------------------------------------------------------------------------
(* C13 *)

\* the glyphs of a run that have a bounding box, in the order the loop visits them
BoxedGlyphs(run) == SelectSeq(run.glyphs, HasBox)

\* the four corners of a texture rectangle
UvCorners(uv_rect) ==
    {<<uv_rect.min[1], uv_rect.min[2]>>, <<uv_rect.min[1], uv_rect.max[2]>>,
     <<uv_rect.max[1], uv_rect.min[2]>>, <<uv_rect.max[1], uv_rect.max[2]>>}

(* C13: when a flush reads the texture rectangle of a glyph, the glyph is resident: every *)
(* glyph with a bounding box of the drained runs is in the cache and its bitmap is in   *)
(* the uploaded pixel buffer; the j-th quad of a drawn run takes its texture            *)
(* coordinates from the slot that holds the j-th such glyph of the run, never from a    *)
(* slot that was evicted or given to another glyph; a glyph without a rectangle adds no *)
(* vertices.                                                                            *)
C13_QuadsUseResidentSlots ==
    FlushReturned =>
        LET draws == DrawsOf(cmds)
            upload == SelectSeq(cmds, LAMBDA c : c.op = "copy_buffer_to_image")[1]
        IN  /\ \A n \in 1..Len(drained) : \A i \in 1..Len(drained[n].glyphs) :
                 HasBox(drained[n].glyphs[i]) =>
                     \E s \in 1..AtlasCapacity :
                         /\ draw_text.cache.all_glyphs[s] = GlyphKey(drained[n].glyphs[i])
                         /\ upload.buffer[s] = GlyphKey(drained[n].glyphs[i])
            /\ Len(draws) <= Len(drained)
            /\ \A d \in 1..Len(draws) :
                 LET boxed == BoxedGlyphs(drained[d])
                 IN  /\ draws[d].vertex_count = 6 * Len(boxed)
                     /\ Len(draws[d].vertices) = 6 * Len(boxed)
                     /\ \A j \in 1..Len(boxed) : \A v \in (6 * (j - 1) + 1)..(6 * j) :
                          \E s \in 1..AtlasCapacity :
                              /\ draw_text.cache.all_glyphs[s] = GlyphKey(boxed[j])
                              /\ upload.buffer[s] = GlyphKey(boxed[j])
                              /\ draws[d].vertices[v].tex_position
                                     \in UvCorners([min |-> <<s - 1, 0>>, max |-> <<s, 1>>])

\* a flush that drew a run after the cache had evicted glyphs to make room
C13_Witness_DrawAfterEviction ==
    /\ FlushReturned
    /\ Len(DrawsOf(cmds)) >= 1
    /\ \E s \in 1..AtlasCapacity :
         /\ draw_text.cache.all_glyphs[s] = NoKey
         /\ draw_text.cache_pixel_buffer.cells[s] /= NoKey

----------------------------------------------------------------------------
(* C15 *)

\* twice the signed area of the triangle a, b, c, on the numerators of the positions
\* (all x share the denominator screen_width, all y the denominator screen_height)
Cross(a, b, c) ==
    (b[1][1] - a[1][1]) * (c[2][1] - a[2][1]) - (b[2][1] - a[2][1]) * (c[1][1] - a[1][1])

Abs(n) == IF n < 0 THEN 0 - n ELSE n

(* C15: every glyph with a rectangle yields six vertices in the order (bottom-left,     *)
(* top-left, top-right), (top-right, bottom-right, bottom-left), bottom being max.y;    *)
(* each vertex pairs a corner of the destination rectangle with the same corner of the  *)
(* texture rectangle; the two triangles share exactly the corners bottom-left and       *)
(* top-right, lie on opposite sides of that diagonal and their areas add up to the area *)
(* of the rectangle, so they cover it without gap or overlap.                           *)
C15_QuadIsTwoTrianglesOverRect ==
    FlushReturned =>
        LET draws == DrawsOf(cmds)
            w == draw_text.framebuffers[1][1]
            h == draw_text.framebuffers[1][2]
        IN  \A d \in 1..Len(draws) :
                LET boxed == BoxedGlyphs(drained[d])
                IN  \A j \in 1..Len(boxed) :
                        LET q == SubSeq(draws[d].vertices, 6 * (j - 1) + 1, 6 * j)
                            gl == GlRect(PixelBoundingBox(boxed[j]), w, h)
                            s == SlotOf(draw_text.cache, GlyphKey(boxed[j]))
                            bl == <<gl.min[1], gl.max[2]>>
                            tl == <<gl.min[1], gl.min[2]>>
                            tr == <<gl.max[1], gl.min[2]>>
                            br == <<gl.max[1], gl.max[2]>>
                            first == {q[1].position, q[2].position, q[3].position}
                            second == {q[4].position, q[5].position, q[6].position}
                        IN  /\ Len(q) = 6
                            /\ <<q[1].position, q[2].position, q[3].position>> = <<bl, tl, tr>>
                            /\ <<q[4].position, q[5].position, q[6].position>> = <<tr, br, bl>>
                            /\ <<q[1].tex_position, q[2].tex_position, q[3].tex_position>>
                                   = << <<s - 1, 1>>, <<s - 1, 0>>, <<s, 0>> >>
                            /\ <<q[4].tex_position, q[5].tex_position, q[6].tex_position>>
                                   = << <<s, 0>>, <<s, 1>>, <<s - 1, 1>> >>
                            /\ first \cap second = {bl, tr}
                            /\ Cardinality(first) = 3 /\ Cardinality(second) = 3
                            /\ Cross(bl, tr, q[2].position) * Cross(bl, tr, q[5].position) < 0
                            /\ Abs(Cross(q[1].position, q[2].position, q[3].position))
                                 + Abs(Cross(q[4].position, q[5].position, q[6].position))
                                   = 2 * (gl.max[1][1] - gl.min[1][1]) * (gl.max[2][1] - gl.min[2][1])

\* a flush that drew the two quads of a run of two glyphs, in different atlas slots
C15_Witness_TwoQuadsDrawn ==
    /\ FlushReturned
    /\ \E d \in 1..Len(DrawsOf(cmds)) :
         /\ Len(BoxedGlyphs(drained[d])) = 2
         /\ DrawsOf(cmds)[d].vertices[1].tex_position /= DrawsOf(cmds)[d].vertices[7].tex_position
         /\ DrawsOf(cmds)[d].vertices[1].position /= DrawsOf(cmds)[d].vertices[7].position

----------------------------------------------------------------------------
(* C17 *)

\* the number of render passes open behind the first n commands of the builder
OpenPasses(l, n) ==
    CountOp(SubSeq(l, 1, n), "begin_render_pass") - CountOp(SubSeq(l, 1, n), "end_render_pass")

\* the pass a command at position i is recorded in: the framebuffer of the latest begin
PassAt(l, i) ==
    LET begins == {b \in 1..(i - 1) : l[b].op = "begin_render_pass"}
    IN  l[CHOOSE b \in begins : \A c \in begins : c <= b].framebuffer[1]

(* C17: the commands recorded into the builder are well nested: a render pass begins    *)
(* only while none is open and ends only while one is open, the atlas copy is recorded  *)
(* only while no pass is open, every bind and draw of the text loop is recorded while   *)
(* the text pass is open, and when draw_text has returned no pass is left open; for any *)
(* number of runs, none included, and when the loop stopped early.                      *)
C17_RenderPassesWellNested ==
    /\ \A i \in 1..Len(cmds) :
         /\ cmds[i].op = "begin_render_pass" => OpenPasses(cmds, i - 1) = 0
         /\ cmds[i].op = "end_render_pass" => OpenPasses(cmds, i - 1) = 1
         /\ cmds[i].op = "copy_buffer_to_image" => OpenPasses(cmds, i - 1) = 0
         /\ cmds[i].op \in {"bind_pipeline_graphics", "bind_descriptor_sets",
                            "bind_vertex_buffers", "draw"}
               => /\ OpenPasses(cmds, i - 1) = 1
                  /\ PassAt(cmds, i) = "text"
    /\ OpenPasses(cmds, Len(cmds)) = 0
    /\ FlushReturned =>
         /\ cmds[Len(cmds)].op = "end_render_pass"
         /\ \E i \in 1..Len(cmds) :
              cmds[i].op = "begin_render_pass" /\ cmds[i].framebuffer[1] = "text"

\* a flush recorded behind the caller's own render pass whose loop drew a run and then
\* stopped before the last one
C17_Witness_EarlyExitBehindMainPass ==
    /\ FlushReturned
    /\ cmds[1].op = "begin_render_pass"
    /\ cmds[1].framebuffer[1] = "main"
    /\ Len(DrawsOf(cmds)) >= 1
    /\ Len(DrawsOf(cmds)) < Len(drained)

----------------------------------------------------------------------------
(* C14 *)

\* the fraction f has the integer value n
FracIs(f, n) == f[2] > 0 /\ f[1] = n * f[2]

(* C14: the conversion (pixel / screen_dimension - 0.5) * 2 uses the width and height   *)
(* of the render target of the frame's image index, maps pixel 0 to -1 and pixel =      *)
(* dimension to +1 on both axes, and so gives a rectangle that covers the whole target  *)
(* the corners (-1, -1) and (1, 1), for every positive width and height.                *)
C14_NdcEndpoints ==
    probe.kind = "ndc" =>
        /\ probe.dims = swapchain_extent
        /\ probe.dims[1] > 0 /\ probe.dims[2] > 0
        /\ \A a \in 1..2 :
             /\ probe.screen_rect.min[a] = 0 => FracIs(probe.gl_rect.min[a], -1)
             /\ probe.screen_rect.max[a] = 0 => FracIs(probe.gl_rect.max[a], -1)
             /\ probe.screen_rect.min[a] = probe.dims[a] => FracIs(probe.gl_rect.min[a], 1)
             /\ probe.screen_rect.max[a] = probe.dims[a] => FracIs(probe.gl_rect.max[a], 1)
        /\ (probe.screen_rect = [min |-> <<0, 0>>, max |-> swapchain_extent]) =>
             /\ FracIs(probe.gl_rect.min[1], -1) /\ FracIs(probe.gl_rect.min[2], -1)
             /\ FracIs(probe.gl_rect.max[1], 1) /\ FracIs(probe.gl_rect.max[2], 1)

\* the rectangle of a whole target that is wider than high was converted
C14_Witness_FullTargetConverted ==
    /\ probe.kind = "ndc"
    /\ swapchain_extent[1] > swapchain_extent[2]
    /\ probe.screen_rect = [min |-> <<0, 0>>, max |-> swapchain_extent]
    /\ probe.image_num = NumImages

----------------------------------------------------------------------------
(* C16 *)

(* C16: for a rect inside the atlas and a source of width * height bytes the uploader   *)
(* closure writes exactly the pixels of the rect: byte c of source row r goes to atlas  *)
(* row min.y + r, column min.x + c; it indexes neither buffer outside its length, never *)
(* runs a row over the end of an atlas row, writes no pixel twice and no pixel outside  *)
(* the rect; and queue_text leaves the pixel buffer as it was.                          *)
C16_UploadWritesExactlyRect ==
    [][ /\ probe'.kind = "upload" =>
             LET rect == probe'.rect
                 width == rect.max[1] - rect.min[1]
                 height == rect.max[2] - rect.min[2]
             IN  /\ ~probe'.panicked
                 /\ probe'.writes =
                        {<<(rect.min[2] + r) * CACHE_WIDTH + rect.min[1] + c, r * width + c>> :
                            r \in 0..(height - 1), c \in 0..(width - 1)}
                 /\ \A wr \in probe'.writes :
                      /\ wr[1] \in 0..(draw_text'.cache_pixel_buffer.len - 1)
                      /\ wr[2] \in 0..(probe'.src_len - 1)
                      /\ wr[1] \div CACHE_WIDTH \in rect.min[2]..(rect.max[2] - 1)
                      /\ wr[1] % CACHE_WIDTH \in rect.min[1]..(rect.max[1] - 1)
                 /\ {wr[1] : wr \in probe'.writes} =
                        {y * CACHE_WIDTH + x : x \in rect.min[1]..(rect.max[1] - 1),
                                               y \in rect.min[2]..(rect.max[2] - 1)}
                 /\ Cardinality({wr[1] : wr \in probe'.writes}) = width * height
                 /\ Cardinality({wr[2] : wr \in probe'.writes}) = width * height
        /\ draw_text'.texts /= draw_text.texts =>
             draw_text'.cache_pixel_buffer = draw_text.cache_pixel_buffer ]_vars

\* a bitmap of more than one row and column was uploaded into the last rows and columns
\* of the atlas, and a run was queued on a DrawText whose pixel buffer holds bitmaps
C16_Witness_UploadAtFarCorner ==
    /\ probe.kind = "upload"
    /\ probe.rect.max = <<CACHE_WIDTH, CACHE_HEIGHT>>
    /\ probe.rect.max[1] - probe.rect.min[1] > 1
    /\ probe.rect.max[2] - probe.rect.min[2] > 1
    /\ draw_text.texts /= <<>>
    /\ \E c \in 1..AtlasCapacity : draw_text.cache_pixel_buffer.cells[c] /= NoKey

====
